---- MODULE Spec2Model ----
(***************************************************************************)
(* Model of the local key management service of aries-framework-go        *)
(* (pkg/kms/localkms/localkms.go): New, Create, Get and Rotate over a      *)
(* shared key-value store, called by concurrent callers.  Create and Get   *)
(* issue one storage call and are one step each; Rotate issues three       *)
(* storage calls (read, delete, write) and is three steps, between which   *)
(* other callers may run.  Further specifications follow one caller that   *)
(* also exports and imports public keys (SpecExport), that keeps handles   *)
(* (SpecHeld), or whose stored blobs are changed in storage (SpecTamper).  *)
(***************************************************************************)
EXTENDS Integers, Sequences, FiniteSets, TLC

\* ------------------------------------------------------------------ bounds
\* keys the crypto library generates in one run, identifiers callers name
MaxKeys == 3
MaxIds == 3

\* the two callers, each holding its own instance over the shared store
Procs == {1, 2}
Ids == 1..MaxIds

\* the empty string returned as identifier next to an error
EmptyID == 0
\* the nil handle returned next to an error
NoHandle == <<>>

\* ------------------------------------------------------------ error kinds
NoError == "nil"
MissingKeyType == "failed to create new key, missing key type"
UnsupportedKeyType == "key type unrecognized"
NotFound == "data not found"
StoreReadFailed == "failed to get data"
StoreWriteFailed == "failed to put data"
StoreDeleteFailed == "failed to delete data"
DecryptionFailed == "decryption failed"
LockUnavailable == "secret lock failed"
StoreOpenFailed == "failed to ceate local kms"
InvalidMasterKeyURI == "invalid master key URI"
NotAsymmetricKey == "keyset contains a non-private key"
MalformedKeyBytes == "pubKey is empty"

\* --------------------------------------------------------- key type tags
RecognizedTags ==
    { "AES128GCM", "AES256GCMNoPrefix", "AES256GCM", "ChaCha20Poly1305",
      "XChaCha20Poly1305", "ECDSAP256", "ECDSAP384", "ECDSAP521", "ED25519",
      "HMACSHA256Tag256" }

\* tags the concurrent callers of the model pass in: a recognized one, the
\* empty one and one outside the enumeration
TagInputs == { "AES256GCM", "", "unsupported" }

\* every recognized tag, the empty one and one outside the enumeration
AllTagInputs == RecognizedTags \cup { "", "unsupported" }

NoTemplate == [typeUrl |-> "", params |-> "", prefix |-> ""]

\* a catalog that falls back to a default template for tags it does not know
getKeyTemplateDefaulting(keyType) ==
    [tmpl |-> [typeUrl |-> "AesGcmKey", params |-> "256", prefix |-> "TINK"], err |-> NoError]

getKeyTemplate(keyType) ==
    CASE keyType = "AES128GCM" ->
           [tmpl |-> [typeUrl |-> "AesGcmKey", params |-> "128", prefix |-> "TINK"], err |-> NoError]
      [] keyType = "AES256GCMNoPrefix" ->
           [tmpl |-> [typeUrl |-> "AesGcmKey", params |-> "256", prefix |-> "RAW"], err |-> NoError]
      [] keyType = "AES256GCM" ->
           [tmpl |-> [typeUrl |-> "AesGcmKey", params |-> "256", prefix |-> "TINK"], err |-> NoError]
      [] keyType = "ChaCha20Poly1305" ->
           [tmpl |-> [typeUrl |-> "ChaCha20Poly1305Key", params |-> "", prefix |-> "TINK"], err |-> NoError]
      [] keyType = "XChaCha20Poly1305" ->
           [tmpl |-> [typeUrl |-> "XChaCha20Poly1305Key", params |-> "", prefix |-> "TINK"], err |-> NoError]
      [] keyType = "ECDSAP256" ->
           [tmpl |-> [typeUrl |-> "EcdsaPrivateKey", params |-> "P256", prefix |-> "RAW"], err |-> NoError]
      [] keyType = "ECDSAP384" ->
           [tmpl |-> [typeUrl |-> "EcdsaPrivateKey", params |-> "P384", prefix |-> "RAW"], err |-> NoError]
      [] keyType = "ECDSAP521" ->
           [tmpl |-> [typeUrl |-> "EcdsaPrivateKey", params |-> "P521", prefix |-> "RAW"], err |-> NoError]
      [] keyType = "ED25519" ->
           [tmpl |-> [typeUrl |-> "Ed25519PrivateKey", params |-> "", prefix |-> "RAW"], err |-> NoError]
      [] keyType = "HMACSHA256Tag256" ->
           [tmpl |-> [typeUrl |-> "HmacKey", params |-> "SHA256Tag256", prefix |-> "TINK"], err |-> NoError]
      [] OTHER ->
           [tmpl |-> NoTemplate, err |-> UnsupportedKeyType]


\* ------------------------------------------------------------- keysets
\* A key handle is a sequence of key versions.  keyId stands for the key
\* material and numeric id of the version (fresh for every generated key).
Version(keyId, tmpl, status) == [keyId |-> keyId, tmpl |-> tmpl, status |-> status]

\* keyset.NewHandle(template): a keyset of one key, which is the primary
NewHandle(tmpl, keyId) == << Version(keyId, tmpl, "primary") >>

\* keyset.Manager.Rotate(template) followed by Manager.Handle(): a fresh key
\* is appended and becomes the primary, the keys already there stay
kmRotate(kh, tmpl, keyId) ==
    [i \in 1..Len(kh) |-> [kh[i] EXCEPT !.status = "secondary"]]
        \o << Version(keyId, tmpl, "primary") >>

\* the tags of the signature key families; the other recognized tags are the
\* AEAD and MAC ones
AsymmetricTags == { "ECDSAP256", "ECDSAP384", "ECDSAP521", "ED25519" }
SymmetricTags == RecognizedTags \ AsymmetricTags

\* the nil byte slice returned next to an error
NoBytes == << >>

\* the key type a private key's public projection has
PublicTypeOf(typeUrl) ==
    CASE typeUrl = "EcdsaPrivateKey" -> "EcdsaPublicKey"
      [] typeUrl = "Ed25519PrivateKey" -> "Ed25519PublicKey"
      [] OTHER -> ""

\* kh.Public(): the keyset of the public keys, when every key of the keyset
\* is an asymmetric private key
Public(kh) ==
    IF \A i \in 1..Len(kh) : PublicTypeOf(kh[i].tmpl.typeUrl) # ""
    THEN [kh |-> [i \in 1..Len(kh) |->
                    [kh[i] EXCEPT !.tmpl.typeUrl = PublicTypeOf(@)]],
          err |-> NoError]
    ELSE [kh |-> NoHandle, err |-> NotAsymmetricKey]

\* pubKH.WriteWithNoSecrets(pubKeyWriter): the raw bytes of the primary public
\* key, which say neither the algorithm nor the status
WritePubKey(pubKH) ==
    << pubKH[CHOOSE i \in 1..Len(pubKH) : pubKH[i].status = "primary"].keyId >>

\* publicKeyBytesToHandle(pubKey, kt): a keyset of the one public key the bytes
\* hold, of the algorithm the tag names
publicKeyBytesToHandle(pubKey, kt) ==
    IF pubKey = NoBytes THEN [kh |-> NoHandle, err |-> MalformedKeyBytes]
    ELSE IF kt \notin AsymmetricTags THEN [kh |-> NoHandle, err |-> UnsupportedKeyType]
    ELSE [kh |-> << Version(pubKey[1],
                            [getKeyTemplate(kt).tmpl EXCEPT !.typeUrl = PublicTypeOf(@)],
                            "primary") >>,
          err |-> NoError]

Range(f) == {f[x] : x \in DOMAIN f}

PrimaryCount(kh) == Cardinality({i \in 1..Len(kh) : kh[i].status = "primary"})

\* ------------------------------------------------- master key and sealing
LocalKeyURIPrefix == "local-lock://"

\* a master key URI is the pair <<scheme prefix, rest>>
EmptyURI == << "", "" >>
MasterKeyURIs ==
    { EmptyURI,
      << "bad-prefix://", "test/key/uri" >>,
      << LocalKeyURIPrefix, "test/key/uri" >>,
      << LocalKeyURIPrefix, "other/key/uri" >> }

\* keywrapper.New: the URI must carry the local lock prefix
keywrapperNew(masterKeyURI) ==
    IF masterKeyURI[1] = LocalKeyURIPrefix THEN NoError ELSE InvalidMasterKeyURI

\* kh.Write(jsonKeysetWriter, masterKeyEnvAEAD): the serialized keyset sealed
\* under the master key of the instance; the seal authenticates the bytes it
\* was made over
Seal(kh, masterKeyURI) == [keyset |-> kh, sealedUnder |-> masterKeyURI, sealed |-> kh]

\* keyset.Read(jsonKeysetReader, masterKeyEnvAEAD): the seal verifies only
\* under the master key that produced it and over the bytes it was made over
Unseal(blob, masterKeyURI) ==
    IF blob.sealedUnder = masterKeyURI /\ blob.sealed = blob.keyset
    THEN [kh |-> blob.keyset, err |-> NoError]
    ELSE [kh |-> NoHandle, err |-> DecryptionFailed]

\* ---------------------------------------------------------------- state
VARIABLES
    store,      \* the kmsdb namespace: identifier -> encrypted keyset blob
    issued,     \* identifiers minted so far by the store writer
    keyCtr,     \* number of keys generated so far (source of fresh keyIds)
    kms,        \* kms[p]: master key URI of the instance caller p holds
    pc,         \* pc[p]: where caller p is inside Rotate, or "idle"
    call,       \* call[p]: arguments and locals of the Rotate in progress
    ret,        \* what the step just taken returned to its caller, if it returned
    held,       \* held[p]: the handle caller p keeps from an earlier call
    created     \* how many Create calls have returned without error so far

vars == << store, issued, keyCtr, kms, pc, call, ret, held, created >>

NoKMS == << "nil", "nil" >>
\* no storage or secret lock call issued
NoCalls == << >>

NoCall == [kt |-> "", keyID |-> EmptyID, loaded |-> NoHandle, updated |-> NoHandle,
           io |-> NoCalls]
\* the step did not return: it was a step inside Rotate
NoRet == [p |-> 0, op |-> "none", id |-> EmptyID, kh |-> NoHandle, err |-> NoError,
          io |-> NoCalls]

\* caller p gets (id, kh, err) back from op, which issued the storage and
\* secret lock calls io, in that order
Return(p, op, id, kh, err, io) ==
    [p |-> p, op |-> op, id |-> id, kh |-> kh, err |-> err, io |-> io]

Init ==
    /\ store = << >>
    /\ issued = {}
    /\ keyCtr = 0
    /\ kms = [p \in Procs |-> NoKMS]
    /\ pc = [p \in Procs |-> "idle"]
    /\ call = [p \in Procs |-> NoCall]
    /\ ret = NoRet
    /\ held = [p \in Procs |-> NoHandle]
    /\ created = 0

\* --------------------------------------------------- storage contract
\* faults a storage or secret lock call of one step may suffer
Faults == { "none", "store", "lock" }

storePut(s, k, v) == [i \in DOMAIN s \cup {k} |-> IF i = k THEN v ELSE s[i]]
storeDelete(s, k) == [i \in DOMAIN s \ {k} |-> s[i]]

\* getKeySet that unseals whatever the read gave it, also when it gave nothing
getKeySetUnsealsAbsent(s, masterKeyURI, id, fault) ==
    IF fault = "store" THEN [kh |-> NoHandle, err |-> StoreReadFailed]
    ELSE IF id \notin DOMAIN s \/ fault = "lock" THEN [kh |-> NoHandle, err |-> DecryptionFailed]
    ELSE Unseal(s[id], masterKeyURI)

\* getKeySet that deserializes the blob without verifying its seal
getKeySetUnverified(s, masterKeyURI, id, fault) ==
    IF fault = "store" THEN [kh |-> NoHandle, err |-> StoreReadFailed]
    ELSE IF id \notin DOMAIN s THEN [kh |-> NoHandle, err |-> NotFound]
    ELSE IF fault = "lock" THEN [kh |-> NoHandle, err |-> DecryptionFailed]
    ELSE IF s[id].sealedUnder = masterKeyURI THEN [kh |-> s[id].keyset, err |-> NoError]
    ELSE [kh |-> NoHandle, err |-> DecryptionFailed]

\* getKeySet that reads the keyset without the master key of the instance
getKeySetAnyMasterKey(s, masterKeyURI, id, fault) ==
    IF fault = "store" THEN [kh |-> NoHandle, err |-> StoreReadFailed]
    ELSE IF id \notin DOMAIN s THEN [kh |-> NoHandle, err |-> NotFound]
    ELSE IF fault = "lock" THEN [kh |-> NoHandle, err |-> DecryptionFailed]
    ELSE Unseal(s[id], s[id].sealedUnder)

\* newReader(store, id) and keyset.Read: read the blob, then unseal it
getKeySet(s, masterKeyURI, id, fault) ==
    IF fault = "store" THEN [kh |-> NoHandle, err |-> StoreReadFailed]
    ELSE IF id \notin DOMAIN s THEN [kh |-> NoHandle, err |-> NotFound]
    ELSE IF fault = "lock" THEN [kh |-> NoHandle, err |-> DecryptionFailed]
    ELSE Unseal(s[id], masterKeyURI)

\* the calls getKeySet issues: the storage read, then, when the read gave a
\* blob, the secret lock's decrypt for the unsealing
getKeySetCalls(s, id, fault) ==
    IF fault = "store" \/ id \notin DOMAIN s THEN << "get" >> ELSE << "get", "decrypt" >>

\* identifiers the store writer has not minted yet
FreshIds == Ids \ issued

\* the identifier the store writer mints next: one never minted before
newKeysetID == CHOOSE n \in FreshIds : \A m \in FreshIds : n <= m

\* callers inside a Rotate, each of which is still to mint an identifier
InFlight == {q \in Procs : pc[q] # "idle"}

\* room for one more key and one more identifier
CanGenerate ==
    /\ keyCtr < MaxKeys
    /\ Cardinality(issued) + Cardinality(InFlight) < MaxIds


\* storeKeySet that writes the blob although it reports the failure
storeKeySetWritesOnError(s, masterKeyURI, kh, newID, fault) ==
    IF fault = "lock" THEN [store |-> s, id |-> EmptyID, err |-> LockUnavailable]
    ELSE IF fault = "store"
    THEN [store |-> storePut(s, newID, Seal(kh, masterKeyURI)), id |-> EmptyID,
          err |-> StoreWriteFailed]
    ELSE [store |-> storePut(s, newID, Seal(kh, masterKeyURI)), id |-> newID, err |-> NoError]

\* storeKeySet: seal the keyset, then write it under a newly minted
\* identifier; on any failure nothing is written and no identifier returned
storeKeySet(s, masterKeyURI, kh, newID, fault) ==
    IF fault = "lock" THEN [store |-> s, id |-> EmptyID, err |-> LockUnavailable]
    ELSE IF fault = "store" THEN [store |-> s, id |-> EmptyID, err |-> StoreWriteFailed]
    ELSE [store |-> storePut(s, newID, Seal(kh, masterKeyURI)), id |-> newID, err |-> NoError]

\* the calls storeKeySet issues: the secret lock's encrypt for the sealing,
\* then, when the sealing succeeded, the storage write
storeKeySetCalls(fault) ==
    IF fault = "lock" THEN << "encrypt" >> ELSE << "encrypt", "put" >>

Minted(id) == IF id = EmptyID THEN {} ELSE {id}

KeyIDInputs == Ids \cup {EmptyID}

\* ------------------------------------------------------------ operations
\* New that keeps the instance although the key wrapper refused the URI
NewOutcomeIgnoresWrapperError(masterKeyURI, openFails) ==
    IF openFails THEN [kms |-> NoKMS, err |-> StoreOpenFailed]
    ELSE [kms |-> masterKeyURI, err |-> keywrapperNew(masterKeyURI)]

\* New(masterKeyURI, provider): the instance held afterwards and the error
NewOutcome(masterKeyURI, openFails) ==
    IF openFails THEN [kms |-> NoKMS, err |-> StoreOpenFailed]
    ELSE IF keywrapperNew(masterKeyURI) # NoError
    THEN [kms |-> NoKMS, err |-> keywrapperNew(masterKeyURI)]
    ELSE [kms |-> masterKeyURI, err |-> NoError]

New(p, masterKeyURI, openFails) ==
    /\ pc[p] = "idle"
    /\ kms[p] = NoKMS
    /\ LET r == NewOutcome(masterKeyURI, openFails)
       IN  /\ kms' = [kms EXCEPT ![p] = r.kms]
           /\ ret' = Return(p, "New", EmptyID, NoHandle, r.err, NoCalls)
    /\ UNCHANGED << store, issued, keyCtr, pc, call, held, created >>

\* Create that generates and stores a key before it looks at the tag
CreateOutcomeStoresFirst(s, kc, masterKeyURI, newID, kt, fault) ==
    LET t  == getKeyTemplate(kt)
        kh == NewHandle(t.tmpl, kc + 1)
        w  == storeKeySet(s, masterKeyURI, kh, newID, fault)
    IN  IF kt = ""
        THEN [store |-> w.store, keyCtr |-> kc, id |-> EmptyID, kh |-> NoHandle,
              err |-> MissingKeyType, io |-> storeKeySetCalls(fault)]
        ELSE IF t.err # NoError
        THEN [store |-> w.store, keyCtr |-> kc, id |-> EmptyID, kh |-> NoHandle,
              err |-> t.err, io |-> storeKeySetCalls(fault)]
        ELSE IF w.err # NoError
        THEN [store |-> w.store, keyCtr |-> kc + 1, id |-> EmptyID,
              kh |-> NoHandle, err |-> w.err, io |-> storeKeySetCalls(fault)]
        ELSE [store |-> w.store, keyCtr |-> kc + 1, id |-> w.id, kh |-> kh, err |-> NoError,
              io |-> storeKeySetCalls(fault)]

\* Create that does not look at the error of storeKeySet
CreateOutcomeIgnoresStoreError(s, kc, masterKeyURI, newID, kt, fault) ==
    LET t == getKeyTemplate(kt)
    IN  IF kt = ""
        THEN [store |-> s, keyCtr |-> kc, id |-> EmptyID, kh |-> NoHandle,
              err |-> MissingKeyType, io |-> NoCalls]
        ELSE IF t.err # NoError
        THEN [store |-> s, keyCtr |-> kc, id |-> EmptyID, kh |-> NoHandle, err |-> t.err,
              io |-> NoCalls]
        ELSE LET kh == NewHandle(t.tmpl, kc + 1)
                 w  == storeKeySet(s, masterKeyURI, kh, newID, fault)
             IN  [store |-> w.store, keyCtr |-> kc + 1, id |-> w.id, kh |-> kh,
                  err |-> NoError, io |-> storeKeySetCalls(fault)]

\* Create that returns an identifier and a handle without storing the keyset
CreateOutcomeNotStored(s, kc, masterKeyURI, newID, kt, fault) ==
    LET t == getKeyTemplate(kt)
    IN  IF kt = ""
        THEN [store |-> s, keyCtr |-> kc, id |-> EmptyID, kh |-> NoHandle,
              err |-> MissingKeyType, io |-> NoCalls]
        ELSE IF t.err # NoError
        THEN [store |-> s, keyCtr |-> kc, id |-> EmptyID, kh |-> NoHandle, err |-> t.err,
              io |-> NoCalls]
        ELSE [store |-> s, keyCtr |-> kc + 1, id |-> newID,
              kh |-> NewHandle(t.tmpl, kc + 1), err |-> NoError, io |-> NoCalls]

\* Create(kt) on an instance with the given master key, from store s with kc
\* keys generated so far: the store and key count it leaves, and what it returns
CreateOutcome(s, kc, masterKeyURI, newID, kt, fault) ==
    LET t == getKeyTemplate(kt)
    IN  IF kt = ""
        THEN [store |-> s, keyCtr |-> kc, id |-> EmptyID, kh |-> NoHandle,
              err |-> MissingKeyType, io |-> NoCalls]
        ELSE IF t.err # NoError
        THEN [store |-> s, keyCtr |-> kc, id |-> EmptyID, kh |-> NoHandle, err |-> t.err,
              io |-> NoCalls]
        ELSE LET kh == NewHandle(t.tmpl, kc + 1)
                 w  == storeKeySet(s, masterKeyURI, kh, newID, fault)
             IN  IF w.err # NoError
                 THEN [store |-> w.store, keyCtr |-> kc + 1, id |-> EmptyID,
                       kh |-> NoHandle, err |-> w.err, io |-> storeKeySetCalls(fault)]
                 ELSE [store |-> w.store, keyCtr |-> kc + 1, id |-> w.id,
                       kh |-> kh, err |-> NoError, io |-> storeKeySetCalls(fault)]

Create(p, kt, fault) ==
    /\ pc[p] = "idle"
    /\ kms[p] # NoKMS
    /\ getKeyTemplate(kt).err = NoError => CanGenerate
    /\ LET r == CreateOutcome(store, keyCtr, kms[p], newKeysetID, kt, fault)
       IN  /\ store' = r.store
           /\ keyCtr' = r.keyCtr
           /\ issued' = issued \cup Minted(r.id)
           /\ ret' = Return(p, "Create", r.id, r.kh, r.err, r.io)
           /\ created' = IF r.err = NoError THEN created + 1 ELSE created
    /\ UNCHANGED << kms, pc, call, held >>

\* Get that removes a blob it finds but cannot unseal
GetDropsUnreadable(p, keyID, fault) ==
    /\ pc[p] = "idle"
    /\ kms[p] # NoKMS
    /\ LET r == getKeySet(store, kms[p], keyID, fault)
       IN  /\ ret' = Return(p, "Get", EmptyID, r.kh, r.err, getKeySetCalls(store, keyID, fault))
           /\ store' = IF r.err = DecryptionFailed THEN storeDelete(store, keyID) ELSE store
    /\ UNCHANGED << issued, keyCtr, kms, pc, call, held, created >>

\* Get(keyID)
Get(p, keyID, fault) ==
    /\ pc[p] = "idle"
    /\ kms[p] # NoKMS
    /\ LET r == getKeySet(store, kms[p], keyID, fault)
       IN  ret' = Return(p, "Get", EmptyID, r.kh, r.err, getKeySetCalls(store, keyID, fault))
    /\ UNCHANGED << store, issued, keyCtr, kms, pc, call, held, created >>

\* ExportPubKeyBytes that returns nothing, and no error, when it cannot load
\* the keyset
ExportOutcomeSwallowsLoadError(s, masterKeyURI, id, fault) ==
    LET r   == getKeySet(s, masterKeyURI, id, fault)
        pub == Public(r.kh)
    IN  IF r.err # NoError THEN [bytes |-> NoBytes, err |-> NoError]
        ELSE IF pub.err # NoError THEN [bytes |-> NoBytes, err |-> pub.err]
        ELSE [bytes |-> WritePubKey(pub.kh), err |-> NoError]

\* ExportPubKeyBytes that writes the primary key of the keyset it loaded
\* without taking the public projection
ExportOutcomeSkipsPublic(s, masterKeyURI, id, fault) ==
    LET r == getKeySet(s, masterKeyURI, id, fault)
    IN  IF r.err # NoError THEN [bytes |-> NoBytes, err |-> r.err]
        ELSE [bytes |-> WritePubKey(r.kh), err |-> NoError]

\* ExportPubKeyBytes(id) on an instance with the given master key, from
\* store s: the bytes and the error it returns
ExportOutcome(s, masterKeyURI, id, fault) ==
    LET r   == getKeySet(s, masterKeyURI, id, fault)
        pub == Public(r.kh)
    IN  IF r.err # NoError THEN [bytes |-> NoBytes, err |-> r.err]
        ELSE IF pub.err # NoError THEN [bytes |-> NoBytes, err |-> pub.err]
        ELSE [bytes |-> WritePubKey(pub.kh), err |-> NoError]

ExportPubKeyBytes(p, id, fault) ==
    /\ pc[p] = "idle"
    /\ kms[p] # NoKMS
    /\ LET r == ExportOutcome(store, kms[p], id, fault)
       IN  ret' = Return(p, "ExportPubKeyBytes", EmptyID, r.bytes, r.err,
                         getKeySetCalls(store, id, fault))
    /\ UNCHANGED << store, issued, keyCtr, kms, pc, call, held, created >>

\* PubKeyBytesToHandle(pubKey, kt): nothing is stored
PubKeyBytesToHandle(p, pubKey, kt) ==
    /\ pc[p] = "idle"
    /\ kms[p] # NoKMS
    /\ LET r == publicKeyBytesToHandle(pubKey, kt)
       IN  ret' = Return(p, "PubKeyBytesToHandle", EmptyID, r.kh, r.err, NoCalls)
    /\ UNCHANGED << store, issued, keyCtr, kms, pc, call, held, created >>

\* Rotate that makes a new keyset of the template instead of adding a key to
\* the keyset it loaded
RotateLoadOutcomeReplaces(s, kc, masterKeyURI, kt, keyID, fault) ==
    LET r == getKeySet(s, masterKeyURI, keyID, fault)
        t == getKeyTemplate(kt)
        io == getKeySetCalls(s, keyID, fault)
    IN  IF r.err # NoError
        THEN [err |-> r.err, loaded |-> NoHandle, updated |-> NoHandle, io |-> io]
        ELSE IF t.err # NoError
        THEN [err |-> t.err, loaded |-> NoHandle, updated |-> NoHandle, io |-> io]
        ELSE [err |-> NoError, loaded |-> r.kh, updated |-> NewHandle(t.tmpl, kc + 1),
              io |-> io]

\* Rotate that goes on with an empty keyset when it cannot load the one asked
RotateLoadOutcomeIgnoresLoadError(s, kc, masterKeyURI, kt, keyID, fault) ==
    LET r  == getKeySet(s, masterKeyURI, keyID, fault)
        t  == getKeyTemplate(kt)
        io == getKeySetCalls(s, keyID, fault)
    IN  IF t.err # NoError
        THEN [err |-> t.err, loaded |-> NoHandle, updated |-> NoHandle, io |-> io]
        ELSE [err |-> NoError, loaded |-> r.kh,
              updated |-> kmRotate(r.kh, t.tmpl, kc + 1), io |-> io]

\* Rotate that resolves the template before it loads the keyset
RotateLoadOutcomeTagFirst(s, kc, masterKeyURI, kt, keyID, fault) ==
    LET r  == getKeySet(s, masterKeyURI, keyID, fault)
        t  == getKeyTemplate(kt)
        io == getKeySetCalls(s, keyID, fault)
    IN  IF t.err # NoError
        THEN [err |-> t.err, loaded |-> NoHandle, updated |-> NoHandle, io |-> NoCalls]
        ELSE IF r.err # NoError
        THEN [err |-> r.err, loaded |-> NoHandle, updated |-> NoHandle, io |-> io]
        ELSE [err |-> NoError, loaded |-> r.kh,
              updated |-> kmRotate(r.kh, t.tmpl, kc + 1), io |-> io]

\* Rotate(kt, keyID) up to its first storage write: load the keyset, resolve
\* the template, add the new primary key to the loaded keyset
RotateLoadOutcome(s, kc, masterKeyURI, kt, keyID, fault) ==
    LET r == getKeySet(s, masterKeyURI, keyID, fault)
        t == getKeyTemplate(kt)
        io == getKeySetCalls(s, keyID, fault)
    IN  IF r.err # NoError
        THEN [err |-> r.err, loaded |-> NoHandle, updated |-> NoHandle, io |-> io]
        ELSE IF t.err # NoError
        THEN [err |-> t.err, loaded |-> NoHandle, updated |-> NoHandle, io |-> io]
        ELSE [err |-> NoError, loaded |-> r.kh,
              updated |-> kmRotate(r.kh, t.tmpl, kc + 1), io |-> io]

\* Rotate whose keyset manager works on the handle a caller already holds
\* for the keyset, instead of on one of its own
RotateLoadOnHeldHandle(p, kt, keyID, fault) ==
    /\ pc[p] = "idle"
    /\ kms[p] # NoKMS
    /\ LET r == RotateLoadOutcome(store, keyCtr, kms[p], kt, keyID, fault)
       IN  IF r.err # NoError
           THEN /\ ret' = Return(p, "Rotate", EmptyID, NoHandle, r.err, r.io)
                /\ UNCHANGED << keyCtr, pc, call, held >>
           ELSE /\ CanGenerate
                /\ keyCtr' = keyCtr + 1
                /\ call' = [call EXCEPT ![p] =
                               [kt |-> kt, keyID |-> keyID, loaded |-> r.loaded,
                                updated |-> r.updated, io |-> r.io]]
                /\ pc' = [pc EXCEPT ![p] = "rotate_delete"]
                /\ ret' = NoRet
                /\ held' = [q \in Procs |->
                               IF held[q] = r.loaded THEN r.updated ELSE held[q]]
    /\ UNCHANGED << store, issued, kms, created >>

RotateLoad(p, kt, keyID, fault) ==
    /\ pc[p] = "idle"
    /\ kms[p] # NoKMS
    /\ LET r == RotateLoadOutcome(store, keyCtr, kms[p], kt, keyID, fault)
       IN  IF r.err # NoError
           THEN /\ ret' = Return(p, "Rotate", EmptyID, NoHandle, r.err, r.io)
                /\ UNCHANGED << keyCtr, pc, call >>
           ELSE /\ CanGenerate
                /\ keyCtr' = keyCtr + 1
                /\ call' = [call EXCEPT ![p] =
                               [kt |-> kt, keyID |-> keyID, loaded |-> r.loaded,
                                updated |-> r.updated, io |-> r.io]]
                /\ pc' = [pc EXCEPT ![p] = "rotate_delete"]
                /\ ret' = NoRet
    /\ UNCHANGED << store, issued, kms, held, created >>

\* Rotate that forgets to delete the old blob
RotateDeleteSkipped(p, fault) ==
    /\ pc[p] = "rotate_delete"
    /\ pc' = [pc EXCEPT ![p] = "rotate_store"]
    /\ ret' = NoRet
    /\ UNCHANGED << store, call, issued, keyCtr, kms, held, created >>

\* Rotate that tries the delete a second time when it fails
RotateDeleteRetries(p, fault) ==
    /\ pc[p] = "rotate_delete"
    /\ store' = storeDelete(store, call[p].keyID)
    /\ pc' = [pc EXCEPT ![p] = "rotate_store"]
    /\ ret' = NoRet
    /\ call' = [call EXCEPT ![p].io =
                   IF fault = "store" THEN @ \o << "delete", "delete" >> ELSE Append(@, "delete")]
    /\ UNCHANGED << issued, keyCtr, kms, held, created >>

\* Rotate that deletes the keyset it loaded wherever it is stored, not the
\* blob under the identifier it was given
RotateDeleteByKeyset(p, fault) ==
    /\ pc[p] = "rotate_delete"
    /\ IF fault = "store"
       THEN /\ ret' = Return(p, "Rotate", EmptyID, NoHandle, StoreDeleteFailed,
                             Append(call[p].io, "delete"))
            /\ pc' = [pc EXCEPT ![p] = "idle"]
            /\ call' = [call EXCEPT ![p] = NoCall]
            /\ UNCHANGED store
       ELSE /\ store' = [i \in {j \in DOMAIN store :
                                   store[j].keyset[1].keyId # call[p].loaded[1].keyId} |-> store[i]]
            /\ pc' = [pc EXCEPT ![p] = "rotate_store"]
            /\ ret' = NoRet
            /\ call' = [call EXCEPT ![p].io = Append(@, "delete")]
    /\ UNCHANGED << issued, keyCtr, kms, held, created >>

\* Rotate: l.store.Delete(keyID)
RotateDelete(p, fault) ==
    /\ pc[p] = "rotate_delete"
    /\ IF fault = "store"
       THEN /\ ret' = Return(p, "Rotate", EmptyID, NoHandle, StoreDeleteFailed,
                             Append(call[p].io, "delete"))
            /\ pc' = [pc EXCEPT ![p] = "idle"]
            /\ call' = [call EXCEPT ![p] = NoCall]
            /\ UNCHANGED store
       ELSE /\ store' = storeDelete(store, call[p].keyID)
            /\ pc' = [pc EXCEPT ![p] = "rotate_store"]
            /\ ret' = NoRet
            /\ call' = [call EXCEPT ![p].io = Append(@, "delete")]
    /\ UNCHANGED << issued, keyCtr, kms, held, created >>

\* Rotate that writes the updated keyset back under the identifier it rotated
RotateStoreInPlace(p, fault) ==
    /\ pc[p] = "rotate_store"
    /\ LET w == storeKeySet(store, kms[p], call[p].updated, call[p].keyID, fault)
       IN  /\ store' = w.store
           /\ issued' = issued \cup Minted(w.id)
           /\ ret' = IF w.err # NoError
                     THEN Return(p, "Rotate", EmptyID, NoHandle, w.err,
                                 call[p].io \o storeKeySetCalls(fault))
                     ELSE Return(p, "Rotate", w.id, call[p].updated, NoError,
                                 call[p].io \o storeKeySetCalls(fault))
    /\ pc' = [pc EXCEPT ![p] = "idle"]
    /\ call' = [call EXCEPT ![p] = NoCall]
    /\ UNCHANGED << keyCtr, kms, held, created >>

\* Rotate that returns the updated handle next to the error of storeKeySet
RotateStoreKeepsHandleOnError(p, fault) ==
    /\ pc[p] = "rotate_store"
    /\ LET w == storeKeySet(store, kms[p], call[p].updated, newKeysetID, fault)
       IN  /\ store' = w.store
           /\ issued' = issued \cup Minted(w.id)
           /\ ret' = Return(p, "Rotate", w.id, call[p].updated, w.err,
                            call[p].io \o storeKeySetCalls(fault))
    /\ pc' = [pc EXCEPT ![p] = "idle"]
    /\ call' = [call EXCEPT ![p] = NoCall]
    /\ UNCHANGED << keyCtr, kms, held, created >>

\* Rotate: l.storeKeySet(updatedKH) and the return
RotateStore(p, fault) ==
    /\ pc[p] = "rotate_store"
    /\ LET w == storeKeySet(store, kms[p], call[p].updated, newKeysetID, fault)
       IN  /\ store' = w.store
           /\ issued' = issued \cup Minted(w.id)
           /\ ret' = IF w.err # NoError
                     THEN Return(p, "Rotate", EmptyID, NoHandle, w.err,
                                 call[p].io \o storeKeySetCalls(fault))
                     ELSE Return(p, "Rotate", w.id, call[p].updated, NoError,
                                 call[p].io \o storeKeySetCalls(fault))
    /\ pc' = [pc EXCEPT ![p] = "idle"]
    /\ call' = [call EXCEPT ![p] = NoCall]
    /\ UNCHANGED << keyCtr, kms, held, created >>

Next ==
    \/ \E p \in Procs, u \in MasterKeyURIs, f \in BOOLEAN : New(p, u, f)
    \/ \E p \in Procs, kt \in TagInputs, f \in Faults : Create(p, kt, f)
    \/ \E p \in Procs, k \in KeyIDInputs, f \in Faults : Get(p, k, f)
    \/ \E p \in Procs, kt \in TagInputs, k \in KeyIDInputs, f \in Faults : RotateLoad(p, kt, k, f)
    \/ \E p \in Procs, f \in Faults : RotateDelete(p, f)
    \/ \E p \in Procs, f \in Faults : RotateStore(p, f)

Spec == Init /\ [][Next]_vars

\* tags of a caller that also uses signature keys: a signature tag, an AEAD
\* tag and one outside the enumeration
ExportTagInputs == { "ED25519", "AES256GCM", "unsupported" }

\* the master key URIs of two instances that construct without error
LocalKeyURIs == { u \in MasterKeyURIs : keywrapperNew(u) = NoError }

\* byte slices callers hand to PubKeyBytesToHandle: none, or a public key
BytesInputs == { NoBytes } \cup { << k >> : k \in 1..MaxKeys }

\* the one caller of the specifications below
Caller == 1

\* one caller creates, rotates, exports and imports, every storage and secret
\* lock call failing or not
NextExport ==
    \/ \E u \in LocalKeyURIs : New(Caller, u, FALSE)
    \/ \E kt \in ExportTagInputs, f \in Faults : Create(Caller, kt, f)
    \/ \E k \in KeyIDInputs, f \in Faults : Get(Caller, k, f)
    \/ \E kt \in ExportTagInputs, k \in KeyIDInputs, f \in Faults :
          RotateLoad(Caller, kt, k, f)
    \/ \E f \in Faults : RotateDelete(Caller, f)
    \/ \E f \in Faults : RotateStore(Caller, f)
    \/ \E k \in KeyIDInputs, f \in Faults : ExportPubKeyBytes(Caller, k, f)
    \/ \E b \in BytesInputs, kt \in ExportTagInputs : PubKeyBytesToHandle(Caller, b, kt)

SpecExport == Init /\ [][NextExport]_vars

\* the key material a changed byte makes of a key
FlippedKey == 0

\* what a blob's bytes become when one of them is changed in storage: the
\* material of one of the keys is another one
Tampered(kh) == { [kh EXCEPT ![i].keyId = FlippedKey] : i \in 1..Len(kh) }

\* the bytes stored under id, as they were written, are changed behind the
\* service
Tamper(id, bytes) ==
    /\ id \in DOMAIN store
    /\ store[id].keyset = store[id].sealed
    /\ bytes # store[id].keyset
    /\ store' = [store EXCEPT ![id].keyset = bytes]
    /\ ret' = NoRet
    /\ UNCHANGED << issued, keyCtr, kms, pc, call, held, created >>

\* one caller creates, reads and rotates while stored blobs are changed
\* behind the service
NextTamper ==
    \/ \E u \in LocalKeyURIs : New(Caller, u, FALSE)
    \/ \E kt \in TagInputs, f \in Faults : Create(Caller, kt, f)
    \/ \E k \in KeyIDInputs, f \in Faults : Get(Caller, k, f)
    \/ \E kt \in TagInputs, k \in KeyIDInputs, f \in Faults : RotateLoad(Caller, kt, k, f)
    \/ \E f \in Faults : RotateDelete(Caller, f)
    \/ \E f \in Faults : RotateStore(Caller, f)
    \/ \E k \in Ids : \E b \in Tampered(IF k \in DOMAIN store THEN store[k].keyset ELSE NoHandle) :
          Tamper(k, b)

SpecTamper == Init /\ [][NextTamper]_vars

\* the caller keeps the handle the Create or Get that just returned gave it
Keep(p) ==
    /\ ret.p = p
    /\ ret.op \in {"Create", "Get"}
    /\ ret.err = NoError
    /\ held' = [held EXCEPT ![p] = ret.kh]
    /\ UNCHANGED << store, issued, keyCtr, kms, pc, call, ret, created >>

\* one caller creates, reads and rotates, keeping handles it was given
NextHeld ==
    \/ \E u \in LocalKeyURIs : New(Caller, u, FALSE)
    \/ \E kt \in TagInputs, f \in Faults : Create(Caller, kt, f)
    \/ \E k \in KeyIDInputs, f \in Faults : Get(Caller, k, f)
    \/ \E kt \in TagInputs, k \in KeyIDInputs, f \in Faults : RotateLoad(Caller, kt, k, f)
    \/ \E f \in Faults : RotateDelete(Caller, f)
    \/ \E f \in Faults : RotateStore(Caller, f)
    \/ Keep(Caller)

SpecHeld == Init /\ [][NextHeld]_vars


\* what a call of one step may suffer when no storage call fails: nothing,
\* or a failure of the secret lock
SerialFaults == { "none", "lock" }

\* one caller runs its operations one at a time and no storage call fails
NextSerial ==
    \/ \E u \in LocalKeyURIs : New(Caller, u, FALSE)
    \/ \E kt \in ExportTagInputs, f \in SerialFaults : Create(Caller, kt, f)
    \/ \E k \in KeyIDInputs, f \in SerialFaults : Get(Caller, k, f)
    \/ \E kt \in ExportTagInputs, k \in KeyIDInputs, f \in SerialFaults :
          RotateLoad(Caller, kt, k, f)
    \/ \E f \in SerialFaults : RotateDelete(Caller, f)
    \/ \E f \in SerialFaults : RotateStore(Caller, f)
    \/ \E k \in KeyIDInputs, f \in SerialFaults : ExportPubKeyBytes(Caller, k, f)
    \/ \E b \in BytesInputs, kt \in ExportTagInputs : PubKeyBytesToHandle(Caller, b, kt)

SpecSerial == Init /\ [][NextSerial]_vars

\* ------------------------------------------------------------ properties
\* the step in which caller p returns from Rotate
RotateReturns(p) == pc[p] \in {"rotate_delete", "rotate_store"} /\ pc'[p] = "idle"
RotateSucceeds(p) == pc[p] = "rotate_store" /\ pc'[p] = "idle" /\ ret'.err = NoError

\* C1: when Rotate(tag, id) returns newId without error, newId is a non-empty
\* identifier different from id, a Get(id) on the store it leaves fails with
\* NotFound and a Get(newId) succeeds; and an identifier whose blob is gone
\* never holds a blob again, so Get(id) keeps failing
C1_RotateSupersedesId ==
    [][ /\ \A p \in Procs : RotateSucceeds(p) =>
              /\ ret'.id # call[p].keyID
              /\ ret'.id # EmptyID
              /\ getKeySet(store', kms[p], call[p].keyID, "none").err = NotFound
              /\ getKeySet(store', kms[p], ret'.id, "none").err = NoError
        /\ \A i \in issued : i \notin DOMAIN store => i \notin DOMAIN store' ]_vars

\* a Rotate has just returned its new identifier and the old blob is gone
C1_Witness ==
    /\ ret.op = "Rotate" /\ ret.err = NoError
    /\ ret.id \in DOMAIN store
    /\ \E i \in issued : i \notin DOMAIN store


\* the keysets held in store s
StoredKeysets(s) == {s[i].keyset : i \in DOMAIN s}

\* C2: when Rotate(tag, id) has deleted the blob under id and storing the
\* updated keyset fails, Rotate returns the error with no identifier and no
\* handle, and neither the keyset it loaded nor the updated one is stored
\* under any identifier: id holds nothing and no new identifier was written
C2_RotateStoreFailureLosesKeyset ==
    [][ \A p \in Procs :
          (pc[p] = "rotate_store" /\ pc'[p] = "idle" /\ ret'.err # NoError) =>
              /\ ret'.id = EmptyID
              /\ ret'.kh = NoHandle
              /\ call[p].keyID \notin DOMAIN store'
              /\ getKeySet(store', kms[p], call[p].keyID, "none").err = NotFound
              /\ DOMAIN store' \subseteq DOMAIN store
              /\ call[p].loaded \notin StoredKeysets(store')
              /\ call[p].updated \notin StoredKeysets(store') ]_vars

\* a Rotate has just failed in its store step and the store holds nothing,
\* although a keyset had been created
C2_Witness ==
    /\ ret.op = "Rotate" /\ ret.err \in {StoreWriteFailed, LockUnavailable}
    /\ issued # {}
    /\ DOMAIN store = {}


\* the keys of a keyset, in order, whatever their status
KeyIds(kh) == [i \in 1..Len(kh) |-> kh[i].keyId]

\* keyset kh is keyset base with one key added
RotatedFrom(kh, base) ==
    /\ Len(kh) = Len(base) + 1
    /\ SubSeq(KeyIds(kh), 1, Len(base)) = KeyIds(base)

\* identifiers whose stored keyset was rotated from keyset base
Siblings(s, base) == {j \in DOMAIN s : RotatedFrom(s[j].keyset, base)}

\* C3: two Rotate calls that loaded the same keyset under the same identifier
\* do not stop each other: when one returns successfully although the other
\* has already stored its rotation of that keyset, it has written its own
\* rotation under a new identifier, different from the other's, and the
\* other's blob is still stored unchanged
C3_RacingRotatesBothSucceed ==
    [][ \A p \in Procs :
          (RotateSucceeds(p) /\ Siblings(store, call[p].loaded) # {}) =>
              /\ ret'.id \notin DOMAIN store
              /\ ret'.id \in DOMAIN store'
              /\ store'[ret'.id].keyset = call[p].updated
              /\ \A j \in Siblings(store, call[p].loaded) :
                    /\ j # ret'.id
                    /\ j \in DOMAIN store'
                    /\ store'[j] = store[j]
              /\ call[p].keyID \notin DOMAIN store' ]_vars

\* two rotations of one keyset are stored under two identifiers, the second
\* of them having just returned: both calls had loaded it before either wrote
C3_Witness ==
    /\ ret.op = "Rotate" /\ ret.err = NoError
    /\ \E i, j \in DOMAIN store :
          /\ i # j
          /\ ret.id = j
          /\ Len(store[i].keyset) = 2 /\ Len(store[j].keyset) = 2
          /\ store[i].keyset[1].keyId = store[j].keyset[1].keyId
          /\ store[i].keyset[2].keyId # store[j].keyset[2].keyId


\* tags outside the enumeration, the empty one among them
BadTags == AllTagInputs \ RecognizedTags

\* identifiers whose blob the instance with this master key can load
Loadable(s, masterKeyURI) ==
    {i \in DOMAIN s : getKeySet(s, masterKeyURI, i, "none").err = NoError}

\* C4: Rotate(tag, id) with an empty or unrecognized tag on an identifier the
\* instance can load fails with the catalog's error; the failing call returns
\* no identifier and no handle, leaves the store and the caller's position
\* as they were, and a Rotate of the same identifier with a recognized tag
\* still loads the keyset and goes on to rotate it
C4_RotateBadTagLeavesKeyset ==
    /\ [](\A p \in Procs : \A id \in Loadable(store, kms[p]) : \A kt \in BadTags :
            RotateLoadOutcome(store, keyCtr, kms[p], kt, id, "none").err = UnsupportedKeyType)
    /\ [][ (ret'.op = "Rotate" /\ ret'.err = UnsupportedKeyType) =>
              /\ ret'.id = EmptyID /\ ret'.kh = NoHandle
              /\ store' = store /\ issued' = issued /\ keyCtr' = keyCtr
              /\ pc' = pc /\ pc[ret'.p] = "idle"
              /\ Loadable(store', kms[ret'.p]) # {}
              /\ \A id \in Loadable(store, kms[ret'.p]) : \A kt \in RecognizedTags :
                    /\ RotateLoadOutcome(store', keyCtr', kms'[ret'.p], kt, id, "none").err = NoError
                    /\ RotateLoadOutcome(store', keyCtr', kms'[ret'.p], kt, id, "none").loaded
                          = store[id].keyset ]_vars

\* a Rotate with a bad tag has just failed on an identifier that is stored
C4_Witness ==
    /\ ret.op = "Rotate" /\ ret.err = UnsupportedKeyType
    /\ Loadable(store, kms[ret.p]) # {}


\* callers holding an instance
Constructed == {p \in Procs : kms[p] # NoKMS}

\* C5: Create with the empty tag or with a tag outside the enumeration fails
\* with MissingKeyType or UnsupportedKeyType whatever the storage would have
\* answered, returns no identifier and no handle, and the store after the
\* failed call is the store before it
C5_CreateBadTagWritesNothing ==
    /\ [](\A p \in Constructed : \A kt \in BadTags : \A f \in Faults : \A n \in Ids :
            LET r == CreateOutcome(store, keyCtr, kms[p], n, kt, f)
            IN  /\ r.err = (IF kt = "" THEN MissingKeyType ELSE UnsupportedKeyType)
                /\ r.id = EmptyID /\ r.kh = NoHandle
                /\ r.store = store /\ r.keyCtr = keyCtr)
    /\ [][ (ret'.op = "Create" /\ ret'.err \in {MissingKeyType, UnsupportedKeyType}) =>
              /\ ret'.id = EmptyID /\ ret'.kh = NoHandle
              /\ store' = store /\ issued' = issued ]_vars

\* a Create with a bad tag has just failed while the store holds a blob
C5_Witness ==
    /\ ret.op = "Create" /\ ret.err = UnsupportedKeyType
    /\ DOMAIN store # {}


\* C6: when the storage write fails during Create, Create returns the write
\* error with no identifier and no handle, and the store holds exactly what
\* it held before: no entry was added for the keyset
C6_CreateWriteFailureIsAtomic ==
    /\ [](\A p \in Constructed : \A kt \in RecognizedTags : \A n \in Ids :
            LET r == CreateOutcome(store, keyCtr, kms[p], n, kt, "store")
            IN  /\ r.err = StoreWriteFailed
                /\ r.id = EmptyID /\ r.kh = NoHandle
                /\ r.store = store)
    /\ [][ (ret'.op = "Create" /\ ret'.err = StoreWriteFailed) =>
              /\ ret'.id = EmptyID /\ ret'.kh = NoHandle
              /\ store' = store /\ issued' = issued ]_vars

\* a Create has just failed on its storage write, a key having been generated
C6_Witness ==
    /\ ret.op = "Create" /\ ret.err = StoreWriteFailed
    /\ keyCtr > Cardinality(issued)


\* C7: from every reachable store, Create(tag) with any recognized tag and no
\* failing storage or lock call succeeds: it returns a non-empty identifier
\* not stored before and a handle of one primary key, the blob is stored
\* under that identifier, and Get(id) on the same instance returns exactly
\* the key versions of the returned handle
C7_CreateThenGetAgree ==
    /\ [](\A p \in Constructed : \A kt \in RecognizedTags :
            (pc[p] = "idle" /\ CanGenerate) =>
                LET r == CreateOutcome(store, keyCtr, kms[p], newKeysetID, kt, "none")
                IN  /\ r.err = NoError
                    /\ r.id # EmptyID /\ r.id \notin DOMAIN store
                    /\ r.kh # NoHandle /\ Len(r.kh) = 1 /\ PrimaryCount(r.kh) = 1
                    /\ DOMAIN r.store = DOMAIN store \cup {r.id}
                    /\ getKeySet(r.store, kms[p], r.id, "none") = [kh |-> r.kh, err |-> NoError])
    /\ [][ (ret'.op = "Create" /\ ret'.err = NoError) =>
              /\ ret'.id # EmptyID /\ ret'.kh # NoHandle
              /\ ret'.id \notin DOMAIN store
              /\ ret'.id \in DOMAIN store'
              /\ getKeySet(store', kms[ret'.p], ret'.id, "none")
                    = [kh |-> ret'.kh, err |-> NoError] ]_vars

\* a Create has just returned an identifier under which its keyset is stored
C7_Witness ==
    /\ ret.op = "Create" /\ ret.err = NoError
    /\ ret.id \in DOMAIN store
    /\ store[ret.id].keyset = ret.kh


\* the keys that have the given status in some keyset stored in s
KeysWithStatus(s, status) ==
    UNION { { s[i].keyset[n].keyId :
                n \in {m \in 1..Len(s[i].keyset) : s[i].keyset[m].status = status} } :
            i \in DOMAIN s }

\* exactly one key of the keyset is primary, and it is the one added last
OnePrimaryLast(kh) ==
    /\ Len(kh) >= 1
    /\ PrimaryCount(kh) = 1
    /\ kh[Len(kh)].status = "primary"

\* C8: every stored keyset has exactly one primary key version; a successful
\* Rotate returns and stores the loaded keyset with exactly one version
\* added, the added version being the primary and every version it loaded
\* kept, in order, as a secondary; and a key that is secondary in a stored
\* keyset is never primary in a keyset stored later
C8_OnePrimaryRotateAppends ==
    /\ [](\A i \in DOMAIN store : OnePrimaryLast(store[i].keyset))
    /\ [][ /\ \A p \in Procs : RotateSucceeds(p) =>
                 LET old == call[p].loaded
                     new == ret'.kh
                 IN  /\ Len(new) = Len(old) + 1
                     /\ OnePrimaryLast(new)
                     /\ new[Len(new)].keyId \notin {old[n].keyId : n \in 1..Len(old)}
                     /\ \A n \in 1..Len(old) :
                           /\ new[n].keyId = old[n].keyId
                           /\ new[n].tmpl = old[n].tmpl
                           /\ new[n].status = "secondary"
                     /\ \E n \in 1..Len(old) : old[n].status = "primary"
                     /\ store'[ret'.id].keyset = new
           /\ KeysWithStatus(store, "secondary") \cap KeysWithStatus(store', "primary") = {}
       ]_vars

\* a keyset rotated twice is stored: its first two versions, each of them
\* the primary once, are secondary and the third is the primary
C8_Witness ==
    /\ ret.op = "Rotate" /\ ret.err = NoError
    /\ ret.id \in DOMAIN store
    /\ Len(store[ret.id].keyset) = 3
    /\ store[ret.id].keyset[1].status = "secondary"
    /\ store[ret.id].keyset[2].status = "secondary"
    /\ store[ret.id].keyset[3].status = "primary"


\* C9: every blob is stored under an identifier minted for it; an identifier
\* returned by a successful Create or Rotate was never returned before, not
\* even one whose blob has been deleted since; and a step never changes the
\* blob under an identifier that stays stored: it only adds blobs under new
\* identifiers and deletes blobs
C9_IdentifiersFreshBlobsImmutable ==
    /\ [](DOMAIN store \subseteq issued)
    /\ [][ /\ issued \subseteq issued'
           /\ \A i \in DOMAIN store \cap DOMAIN store' : store'[i] = store[i]
           /\ \A i \in DOMAIN store' \ DOMAIN store : i \notin issued /\ i \in issued'
           /\ (ret'.op \in {"Create", "Rotate"} /\ ret'.err = NoError) =>
                 /\ ret'.id \notin issued
                 /\ ret'.id \in issued'
                 /\ DOMAIN store' \ DOMAIN store = {ret'.id} ]_vars

\* a Create has just returned a new identifier after a rotation deleted the
\* blob of an earlier one, which stays unused
C9_Witness ==
    /\ ret.op = "Create" /\ ret.err = NoError
    /\ ret.id \in DOMAIN store
    /\ \E i \in issued : i \notin DOMAIN store /\ i # ret.id

\* C10: Get is a pure read: whether it succeeds or fails, the store after the
\* call, its identifiers and every blob, is the store before it, and no
\* identifier is minted
C10_GetIsPureRead ==
    [][ ret'.op = "Get" =>
          /\ store' = store
          /\ issued' = issued
          /\ keyCtr' = keyCtr
          /\ pc' = pc /\ call' = call /\ kms' = kms ]_vars

\* a Get has just failed to unseal a blob that another instance wrote, and
\* the blob is still stored
C10_Witness ==
    /\ ret.op = "Get" /\ ret.err = DecryptionFailed
    /\ \E i \in DOMAIN store : store[i].sealedUnder # kms[ret.p]


\* C11: Get reports an identifier that holds no blob as NotFound, having
\* issued the storage read only, and a blob whose seal does not verify, under
\* a wrong master key or a failing secret lock, as DecryptionFailed, having
\* read it; an absent identifier never gives DecryptionFailed, not even when
\* the secret lock fails, and a blob that is there never gives NotFound
C11_AbsentIsNotUnverifiable ==
    /\ [](\A p \in Constructed : \A id \in KeyIDInputs : \A f \in {"none", "lock"} :
            LET r == getKeySet(store, kms[p], id, f)
            IN  /\ r.err # NoError => r.kh = NoHandle
                /\ id \notin DOMAIN store => r.err = NotFound
                /\ id \in DOMAIN store => r.err # NotFound
                /\ (id \in DOMAIN store /\ (f = "lock" \/ store[id].sealedUnder # kms[p])) =>
                       r.err = DecryptionFailed)
    /\ [][ ret'.op = "Get" =>
              /\ ret'.err = NotFound =>
                    /\ ret'.io = << "get" >>
                    /\ ret'.kh = NoHandle
                    /\ KeyIDInputs \ DOMAIN store # {}
              /\ ret'.err = DecryptionFailed =>
                    /\ ret'.io = << "get", "decrypt" >>
                    /\ ret'.kh = NoHandle
                    /\ DOMAIN store # {} ]_vars

\* a Get of an absent identifier has just failed with NotFound on an
\* instance whose store holds a blob the instance cannot unseal
C11_Witness ==
    /\ ret.op = "Get" /\ ret.err = NotFound /\ ret.io = << "get" >>
    /\ \E i \in DOMAIN store : getKeySet(store, kms[ret.p], i, "none").err = DecryptionFailed


\* C12: every blob is sealed under the master key of the instance that wrote
\* it; an instance constructed with another master key over the same store
\* gets no handle from Get on that blob, whatever the storage does, and
\* DecryptionFailed when the read itself works; a handle Get returns is the
\* keyset of a blob sealed under the master key of the instance
C12_WrongMasterKeyFailsGet ==
    /\ [](\A p \in Constructed : \A i \in DOMAIN store :
            store[i].sealedUnder # kms[p] =>
                /\ getKeySet(store, kms[p], i, "none") = [kh |-> NoHandle, err |-> DecryptionFailed]
                /\ \A f \in Faults : /\ getKeySet(store, kms[p], i, f).kh = NoHandle
                                     /\ getKeySet(store, kms[p], i, f).err # NoError)
    /\ [][ /\ (ret'.op \in {"Create", "Rotate"} /\ ret'.err = NoError) =>
                 store'[ret'.id].sealedUnder = kms[ret'.p]
           /\ (ret'.op = "Get" /\ ret'.err = NoError) =>
                 \E i \in DOMAIN store : /\ store[i].sealedUnder = kms[ret'.p]
                                         /\ store[i].keyset = ret'.kh ]_vars

\* two instances with different master keys share a store holding a blob of
\* each, and a Get of one of them has just failed to unseal
C12_Witness ==
    /\ ret.op = "Get" /\ ret.err = DecryptionFailed
    /\ \A p \in Procs : kms[p] # NoKMS
    /\ kms[1] # kms[2]
    /\ \A p \in Procs : \E i \in DOMAIN store : store[i].sealedUnder = kms[p]


\* identifiers whose stored bytes are no longer the bytes that were written
Modified(s) == {i \in DOMAIN s : s[i].keyset # s[i].sealed}

\* C13: when the bytes of a stored blob have been changed after they were
\* written, Get on its identifier returns no handle, whatever the storage
\* does, and fails with DecryptionFailed when the read itself works; and a
\* handle Get returns is the keyset of a blob as it was written, none of its
\* keys being changed material
C13_TamperedBlobFailsGet ==
    /\ [](\A p \in Constructed : \A i \in Modified(store) :
            /\ getKeySet(store, kms[p], i, "none") = [kh |-> NoHandle, err |-> DecryptionFailed]
            /\ \A f \in Faults : /\ getKeySet(store, kms[p], i, f).kh = NoHandle
                                 /\ getKeySet(store, kms[p], i, f).err # NoError)
    /\ [][ (ret'.op = "Get" /\ ret'.err = NoError) =>
              /\ \E i \in DOMAIN store \ Modified(store) : store[i].sealed = ret'.kh
              /\ \A n \in 1..Len(ret'.kh) : ret'.kh[n].keyId # FlippedKey
              /\ DOMAIN store # Modified(store) ]_vars

\* a Get has just failed to unseal a blob it read, every stored blob having
\* been changed after it was written under the master key of the instance
C13_Witness ==
    /\ ret.op = "Get" /\ ret.err = DecryptionFailed /\ ret.io = << "get", "decrypt" >>
    /\ Modified(store) # {}
    /\ Modified(store) = DOMAIN store
    /\ \A i \in DOMAIN store : store[i].sealedUnder = kms[ret.p]


\* every key of the keyset is a private key of a signature family
AllAsymmetric(kh) ==
    /\ kh # NoHandle
    /\ \A n \in 1..Len(kh) : kh[n].tmpl.typeUrl \in {"EcdsaPrivateKey", "Ed25519PrivateKey"}

\* no key of the keyset is one
AllSymmetric(kh) ==
    /\ kh # NoHandle
    /\ \A n \in 1..Len(kh) : kh[n].tmpl.typeUrl \notin {"EcdsaPrivateKey", "Ed25519PrivateKey"}

\* C14: when Rotate(tag, id) returns newId without error, ExportPubKeyBytes(id)
\* on the store it leaves fails with NotFound and returns no bytes, and
\* ExportPubKeyBytes(newId), the rotated keyset being one of signature keys
\* only, succeeds with the bytes of its new primary key; an export that
\* fails with NotFound has returned no bytes and has only read the storage
C14_ExportAfterRotate ==
    [][ /\ \A p \in Procs : RotateSucceeds(p) =>
              LET old == ExportOutcome(store', kms[p], call[p].keyID, "none")
                  new == ExportOutcome(store', kms[p], ret'.id, "none")
              IN  /\ old = [bytes |-> NoBytes, err |-> NotFound]
                  /\ AllAsymmetric(ret'.kh) =>
                        /\ new.err = NoError
                        /\ new.bytes # NoBytes
                        /\ new.bytes = << ret'.kh[Len(ret'.kh)].keyId >>
        /\ (ret'.op = "ExportPubKeyBytes" /\ ret'.err = NotFound) =>
              /\ ret'.kh = NoBytes
              /\ ret'.io = << "get" >> ]_vars

\* the public key of a rotated keyset of signature keys has just been
\* exported under the new identifier, the blob of the old one being gone
C14_Witness ==
    /\ ret.op = "ExportPubKeyBytes" /\ ret.err = NoError /\ ret.kh # NoBytes
    /\ \E i \in issued : i \notin DOMAIN store
    /\ \E j \in DOMAIN store :
          /\ Len(store[j].keyset) = 2
          /\ AllAsymmetric(store[j].keyset)
          /\ ret.kh = << store[j].keyset[2].keyId >>


\* C15: from every reachable store, the keyset Create makes with a tag of
\* an AEAD or MAC family fails ExportPubKeyBytes with NotAsymmetricKey and no
\* bytes, and the one it makes with a tag of a signature family exports
\* non-empty bytes, which PubKeyBytesToHandle with the same tag turns into a
\* handle of that public key; the same holds of every stored keyset of one
\* kind of keys and of every export a caller makes
C15_ExportOnlyAsymmetric ==
    /\ [](\A p \in Constructed : \A kt \in RecognizedTags :
            (pc[p] = "idle" /\ CanGenerate) =>
                LET r == CreateOutcome(store, keyCtr, kms[p], newKeysetID, kt, "none")
                    e == ExportOutcome(r.store, kms[p], r.id, "none")
                    h == publicKeyBytesToHandle(e.bytes, kt)
                IN  IF kt \in SymmetricTags
                    THEN e = [bytes |-> NoBytes, err |-> NotAsymmetricKey]
                    ELSE /\ e.err = NoError
                         /\ e.bytes # NoBytes
                         /\ h.err = NoError
                         /\ h.kh # NoHandle
                         /\ h.kh = Public(r.kh).kh)
    /\ [](\A p \in Constructed : \A i \in Loadable(store, kms[p]) :
            LET e == ExportOutcome(store, kms[p], i, "none")
            IN  /\ AllSymmetric(store[i].keyset) =>
                      e = [bytes |-> NoBytes, err |-> NotAsymmetricKey]
                /\ AllAsymmetric(store[i].keyset) =>
                      e.err = NoError /\ e.bytes # NoBytes)
    /\ [][ ret'.op = "ExportPubKeyBytes" =>
              /\ ret'.err = NoError =>
                    /\ ret'.kh # NoBytes
                    /\ \A kt \in AsymmetricTags :
                          publicKeyBytesToHandle(ret'.kh, kt).err = NoError
                    /\ \E i \in DOMAIN store :
                          ~AllSymmetric(store[i].keyset) /\ ret'.kh[1] \in Range(KeyIds(store[i].keyset))
              /\ ret'.err = NotAsymmetricKey =>
                    /\ ret'.kh = NoBytes
                    /\ \E i \in DOMAIN store : ~AllAsymmetric(store[i].keyset) ]_vars

\* the bytes of the public key of a stored keyset made with a signature tag
\* have just been turned into a handle of that key, a keyset made with an
\* AEAD tag being stored next to it
C15_Witness ==
    /\ ret.op = "PubKeyBytesToHandle" /\ ret.err = NoError
    /\ \E i, j \in DOMAIN store :
          /\ Len(store[i].keyset) = 1
          /\ AllAsymmetric(store[i].keyset)
          /\ ret.kh = Public(store[i].keyset).kh
          /\ ExportOutcome(store, kms[ret.p], i, "none").bytes = << ret.kh[1].keyId >>
          /\ AllSymmetric(store[j].keyset)
          /\ ExportOutcome(store, kms[ret.p], j, "none").err = NotAsymmetricKey


\* C16: no step of a Rotate, failing or not, changes a handle a caller holds;
\* when Rotate(tag, id) returns without error, a handle held for the keyset
\* it loaded under id still has the key versions it had, the same number of
\* them with the last one its primary, and the handle Rotate returns is
\* another one, which has these versions and the added one
C16_RotateLeavesHeldHandles ==
    [][ /\ (ret'.op = "Rotate" \/ \E p \in Procs : pc[p] # "idle" \/ pc'[p] # "idle") =>
              held' = held
        /\ \A p \in Procs : RotateSucceeds(p) =>
              \A q \in Procs : KeyIds(held[q]) = KeyIds(call[p].loaded) =>
                  /\ held'[q] = call[p].loaded
                  /\ Len(held'[q]) = Len(call[p].loaded)
                  /\ OnePrimaryLast(held'[q])
                  /\ ret'.kh # held'[q]
                  /\ Len(ret'.kh) = Len(held'[q]) + 1
                  /\ RotatedFrom(ret'.kh, held'[q]) ]_vars

\* a Rotate has just returned a handle with one version more than the handle
\* the caller holds for the keyset it rotated, whose blob is gone
C16_Witness ==
    /\ ret.op = "Rotate" /\ ret.err = NoError
    /\ \E q \in Procs :
          /\ held[q] # NoHandle
          /\ OnePrimaryLast(held[q])
          /\ RotatedFrom(ret.kh, held[q])
          /\ held[q] \notin StoredKeysets(store)


\* the calls that change the store or seal a keyset
WritingCalls == { "delete", "encrypt", "put" }

LoadErrors == { NotFound, StoreReadFailed, DecryptionFailed }

\* C18: Rotate(tag, id), whatever the tag, fails with the error getKeySet(id)
\* gives: NotFound when the identifier holds no blob, the storage's error
\* when the read fails; the failing call has issued the calls of the load
\* and no other, returns no identifier and no handle, and leaves the store,
\* the identifiers minted and the keys generated as they were
C18_RotatePropagatesLoadError ==
    /\ [](\A p \in Constructed : \A kt \in AllTagInputs : \A id \in KeyIDInputs :
            \A f \in Faults :
                LET g == getKeySet(store, kms[p], id, f)
                    r == RotateLoadOutcome(store, keyCtr, kms[p], kt, id, f)
                IN  /\ g.err # NoError =>
                          /\ r.err = g.err
                          /\ r.loaded = NoHandle /\ r.updated = NoHandle
                          /\ r.io = getKeySetCalls(store, id, f)
                    /\ f = "store" => r.err = StoreReadFailed
                    /\ (f # "store" /\ id \notin DOMAIN store) => r.err = NotFound)
    /\ [][ (ret'.op = "Rotate" /\ ret'.err \in LoadErrors) =>
              /\ ret'.id = EmptyID /\ ret'.kh = NoHandle
              /\ Range(ret'.io) \cap WritingCalls = {}
              /\ store' = store /\ issued' = issued /\ keyCtr' = keyCtr
              /\ pc' = pc /\ pc[ret'.p] = "idle" /\ call' = call ]_vars

\* a Rotate has just failed on its storage read, the store holding a keyset
\* that the instance can load
C18_Witness ==
    /\ ret.op = "Rotate" /\ ret.err = StoreReadFailed /\ ret.io = << "get" >>
    /\ ret.id = EmptyID /\ ret.kh = NoHandle
    /\ Loadable(store, kms[ret.p]) # {}


\* no call occurs twice in the sequence of calls
AtMostOnce(io) == \A i, j \in 1..Len(io) : io[i] = io[j] => i = j

\* the errors of a failed storage or secret lock call
CallErrors ==
    { NotFound, StoreReadFailed, DecryptionFailed, StoreDeleteFailed, LockUnavailable,
      StoreWriteFailed }

\* the call whose failure the error reports
FailedCall(err) ==
    CASE err \in {NotFound, StoreReadFailed} -> "get"
      [] err = DecryptionFailed -> "decrypt"
      [] err = StoreDeleteFailed -> "delete"
      [] err = LockUnavailable -> "encrypt"
      [] err = StoreWriteFailed -> "put"
      [] OTHER -> "none"

\* C19: an operation issues each storage and secret lock call at most once,
\* also while a Rotate is under way; when it returns the error of a failed
\* call, that call is the last one it issued; and when the delete of the old
\* blob fails during Rotate, Rotate has neither sealed nor written anything,
\* the store is as it was, and no identifier and no handle is returned
C19_NoRetryFailureEndsOperation ==
    [][ /\ AtMostOnce(ret'.io)
        /\ \A p \in Procs : AtMostOnce(call'[p].io)
        /\ ret'.err \in CallErrors =>
              /\ ret'.io # NoCalls
              /\ ret'.io[Len(ret'.io)] = FailedCall(ret'.err)
              /\ pc'[ret'.p] = "idle"
        /\ (ret'.op = "Rotate" /\ ret'.err = StoreDeleteFailed) =>
              /\ ret'.io = << "get", "decrypt", "delete" >>
              /\ ret'.id = EmptyID /\ ret'.kh = NoHandle
              /\ store' = store /\ issued' = issued
              /\ call[ret'.p].keyID \in DOMAIN store => call[ret'.p].keyID \in DOMAIN store' ]_vars

\* a Rotate has just failed on its delete: the keyset it loaded is still
\* stored and nothing was sealed or written
C19_Witness ==
    /\ ret.op = "Rotate" /\ ret.err = StoreDeleteFailed
    /\ ret.io = << "get", "decrypt", "delete" >>
    /\ Loadable(store, kms[ret.p]) # {}
    /\ Cardinality(DOMAIN store) = Cardinality(issued)


\* C20: whatever the inputs and the failing call, Create, Get, Rotate and
\* ExportPubKeyBytes give no result next to an error; every call that
\* returns an error returns the empty identifier and a nil handle or nil
\* bytes, and every Create, Get, Rotate or ExportPubKeyBytes that returns no
\* error returns its result
C20_ErrorMeansNoResult ==
    /\ [](\A p \in Constructed : \A f \in Faults :
            /\ \A kt \in AllTagInputs : \A n \in Ids :
                  LET r == CreateOutcome(store, keyCtr, kms[p], n, kt, f)
                  IN  r.err # NoError => r.id = EmptyID /\ r.kh = NoHandle
            /\ \A id \in KeyIDInputs :
                  /\ getKeySet(store, kms[p], id, f).err # NoError =>
                        getKeySet(store, kms[p], id, f).kh = NoHandle
                  /\ ExportOutcome(store, kms[p], id, f).err # NoError =>
                        ExportOutcome(store, kms[p], id, f).bytes = NoBytes
                  /\ \A kt \in AllTagInputs :
                        LET r == RotateLoadOutcome(store, keyCtr, kms[p], kt, id, f)
                        IN  r.err # NoError => r.loaded = NoHandle /\ r.updated = NoHandle)
    /\ [][ /\ ret'.err # NoError => ret'.id = EmptyID /\ ret'.kh = NoHandle
           /\ (ret'.op \in {"Create", "Rotate"} /\ ret'.err = NoError) =>
                 ret'.id # EmptyID /\ ret'.kh # NoHandle
           /\ (ret'.op \in {"Get", "ExportPubKeyBytes"} /\ ret'.err = NoError) =>
                 ret'.kh # NoHandle ]_vars

\* a Create has just failed to seal the key it generated: it returned the
\* error, the empty identifier and no handle
C20_Witness ==
    /\ ret.op = "Create" /\ ret.err = LockUnavailable
    /\ ret.id = EmptyID /\ ret.kh = NoHandle
    /\ keyCtr > 0


\* C21: New returns no instance and an error when the master key URI is
\* empty, when its prefix is not the one the key wrapper knows, or when the
\* storage namespace cannot be opened, the storage being opened first; it
\* returns an instance, bound to the URI, and no error only when none of the
\* three happens; so every instance a caller holds has a URI the wrapper
\* accepted, and a failed New leaves the caller without an instance
C21_NewFailsWithoutInstance ==
    /\ [](\A u \in MasterKeyURIs : \A f \in BOOLEAN :
            LET r == NewOutcome(u, f)
            IN  IF f \/ u = EmptyURI \/ u[1] # LocalKeyURIPrefix
                THEN /\ r.kms = NoKMS
                     /\ r.err # NoError
                     /\ f => r.err = StoreOpenFailed
                     /\ ~f => r.err = InvalidMasterKeyURI
                ELSE r = [kms |-> u, err |-> NoError])
    /\ [](\A p \in Constructed :
            /\ kms[p] \in MasterKeyURIs \ {EmptyURI}
            /\ kms[p][1] = LocalKeyURIPrefix)
    /\ [](\A p \in Procs \ Constructed : pc[p] = "idle" /\ ret.p = p => ret.op = "New")
    /\ [][ ret'.op = "New" =>
              /\ kms[ret'.p] = NoKMS
              /\ ret'.err # NoError <=> kms'[ret'.p] = NoKMS
              /\ ret'.err \in {NoError, StoreOpenFailed, InvalidMasterKeyURI}
              /\ ret'.id = EmptyID /\ ret'.kh = NoHandle /\ ret'.io = NoCalls
              /\ \A q \in Procs \ {ret'.p} : kms'[q] = kms[q]
              /\ store' = store /\ issued' = issued ]_vars

\* a New with a URI the key wrapper refuses has just failed and left its
\* caller without an instance, the other caller holding one
C21_Witness ==
    /\ ret.op = "New" /\ ret.err = InvalidMasterKeyURI
    /\ kms[ret.p] = NoKMS
    /\ \E q \in Procs : kms[q] # NoKMS


\* tags to try on the catalog: the recognized ones, the empty one and tags
\* that are not in the enumeration although they look like members of it
ProbeTags == AllTagInputs \cup { "AES192GCM", "aes256gcm", "AES128GCMNoPrefix", "HMACSHA256" }

\* the tags the catalog accepts, and those of them whose template is of one
\* of the given key types
Accepted == { kt \in ProbeTags : getKeyTemplate(kt).err = NoError }
AcceptedOf(typeUrls) == { kt \in Accepted : getKeyTemplate(kt).tmpl.typeUrl \in typeUrls }

AEADKeyTypes == { "AesGcmKey", "ChaCha20Poly1305Key", "XChaCha20Poly1305Key" }

\* C22 as stated: the catalog accepts four AEAD tags, three ECDSA tags, one
\* EdDSA tag and one HMAC tag, and no other
C22_CatalogIsSpecEnumeration ==
    [](/\ Cardinality(AcceptedOf(AEADKeyTypes)) = 4
       /\ Cardinality(AcceptedOf({"EcdsaPrivateKey"})) = 3
       /\ Cardinality(AcceptedOf({"Ed25519PrivateKey"})) = 1
       /\ Cardinality(AcceptedOf({"HmacKey"})) = 1
       /\ Cardinality(Accepted) = 9)

\* C22, amended: the catalog accepts ten tags and no other: five AEAD tags,
\* of which three are AES-GCM (AES128GCM and AES256GCM framed with the
\* prefix, AES256GCMNoPrefix raw), three raw ECDSA tags, one raw EdDSA tag
\* and one HMAC tag; different tags have different templates; every other
\* tag, the empty one too, gets the error and no template; and the keyset a
\* successful Create returns is of the template of an accepted tag
C22_CatalogAcceptsTenTags ==
    /\ [](/\ Accepted = { "AES128GCM", "AES256GCMNoPrefix", "AES256GCM", "ChaCha20Poly1305",
                          "XChaCha20Poly1305", "ECDSAP256", "ECDSAP384", "ECDSAP521",
                          "ED25519", "HMACSHA256Tag256" }
          /\ Accepted = RecognizedTags
          /\ AcceptedOf(AEADKeyTypes) = { "AES128GCM", "AES256GCMNoPrefix", "AES256GCM",
                                          "ChaCha20Poly1305", "XChaCha20Poly1305" }
          /\ AcceptedOf({"AesGcmKey"}) = { "AES128GCM", "AES256GCMNoPrefix", "AES256GCM" }
          /\ AcceptedOf({"EcdsaPrivateKey"}) = { "ECDSAP256", "ECDSAP384", "ECDSAP521" }
          /\ AcceptedOf({"Ed25519PrivateKey"}) = { "ED25519" }
          /\ AcceptedOf({"HmacKey"}) = { "HMACSHA256Tag256" }
          /\ { kt \in Accepted : getKeyTemplate(kt).tmpl.prefix = "RAW" }
                = { "AES256GCMNoPrefix" } \cup AsymmetricTags
          /\ \A a, b \in Accepted :
                getKeyTemplate(a).tmpl = getKeyTemplate(b).tmpl => a = b
          /\ \A kt \in ProbeTags \ Accepted :
                getKeyTemplate(kt) = [tmpl |-> NoTemplate, err |-> UnsupportedKeyType]
          /\ \A kt \in Accepted : getKeyTemplate(kt).tmpl # NoTemplate)
    /\ [][ /\ (ret'.op = "Create" /\ ret'.err = NoError) =>
                 /\ Len(ret'.kh) = 1
                 /\ \E kt \in Accepted : ret'.kh[1].tmpl = getKeyTemplate(kt).tmpl
           /\ (ret'.op = "Rotate" /\ ret'.err = NoError) =>
                 \E kt \in Accepted : ret'.kh[Len(ret'.kh)].tmpl = getKeyTemplate(kt).tmpl
           /\ (ret'.op = "Create" /\ ret'.err = UnsupportedKeyType) => store' = store ]_vars

\* a Create with a tag outside the enumeration has just been rejected, the
\* store holding keysets of the templates of two accepted tags
C22_Witness ==
    /\ ret.op = "Create" /\ ret.err = UnsupportedKeyType
    /\ \E i, j \in DOMAIN store :
          /\ store[i].keyset[1].tmpl = getKeyTemplate("ED25519").tmpl
          /\ store[j].keyset[1].tmpl = getKeyTemplate("AES256GCM").tmpl


\* the identifiers under which stores s and t differ: a blob added, deleted
\* or changed
Touched(s, t) ==
    { i \in DOMAIN s \cup DOMAIN t :
        ~(i \in DOMAIN s /\ i \in DOMAIN t /\ s[i] = t[i]) }

\* C23: Create and Rotate(tag, id) leave every blob stored under another
\* identifier as it is: a Create, returning an identifier or an error,
\* touches at most the identifier it minted; a Rotate that fails before its
\* delete touches nothing, its delete touches at most id, and its write at
\* most the identifier it minted, whether it then returns it or an error
C23_OtherBlobsUntouched ==
    [][ /\ ret'.op = "Create" => Touched(store, store') \subseteq Minted(ret'.id)
        /\ (ret'.op = "Create" /\ ret'.err # NoError) => store' = store
        /\ \A p \in Procs :
              /\ (pc[p] = "idle" /\ (pc'[p] = "rotate_delete"
                                      \/ (ret'.op = "Rotate" /\ ret'.p = p)))
                    => store' = store
              /\ pc[p] = "rotate_delete" /\ pc'[p] # "rotate_delete"
                    => Touched(store, store') \subseteq {call[p].keyID}
              /\ pc[p] = "rotate_store" /\ pc'[p] # "rotate_store"
                    => /\ Touched(store, store') \subseteq Minted(ret'.id)
                       /\ ret'.id # call[p].keyID
                       /\ ret'.id \notin DOMAIN store
              /\ pc[p] # "idle" /\ pc'[p] = "idle"
                    => \A k \in (DOMAIN store \cup DOMAIN store') \ ({call[p].keyID} \cup Minted(ret'.id)) :
                          k \in DOMAIN store /\ k \in DOMAIN store' /\ store'[k] = store[k] ]_vars

\* a Rotate has just failed after its delete, and the blob another Create
\* had stored under another identifier is there, one key in it
C23_Witness ==
    /\ ret.op = "Rotate" /\ ret.err \in {StoreWriteFailed, LockUnavailable}
    /\ \E k \in DOMAIN store : Len(store[k].keyset) = 1
    /\ Cardinality(issued) = 2


\* callers whose Rotate has deleted the old blob and not yet written the new
InWindow == { p \in Procs : pc[p] = "rotate_store" }

\* C24: a Rotate returns successfully only out of the state between its
\* delete and its write, which it entered by the delete; in that state, no
\* call having failed, the blob under id is gone and neither the keyset it
\* loaded nor the updated one is stored under any identifier, a Get(id) by
\* any caller fails with NotFound (or with the read's own failure), and the
\* write can still succeed under a new identifier
C24_RotateHasLostKeysetWindow ==
    /\ [](\A p \in InWindow :
            /\ call[p].keyID \in issued
            /\ call[p].keyID \notin DOMAIN store
            /\ call[p].loaded \notin StoredKeysets(store)
            /\ call[p].updated \notin StoredKeysets(store)
            /\ call[p].io = << "get", "decrypt", "delete" >>
            /\ \A q \in Constructed :
                  /\ getKeySet(store, kms[q], call[p].keyID, "none")
                        = [kh |-> NoHandle, err |-> NotFound]
                  /\ \A f \in Faults :
                        getKeySet(store, kms[q], call[p].keyID, f).err
                          \in {NotFound, StoreReadFailed}
            /\ LET w == storeKeySet(store, kms[p], call[p].updated, newKeysetID, "none")
               IN  /\ w.err = NoError
                   /\ w.id \notin issued
                   /\ w.store[w.id].keyset = call[p].updated)
    /\ [][ \A p \in Procs :
             /\ (ret'.op = "Rotate" /\ ret'.p = p /\ ret'.err = NoError)
                   => /\ p \in InWindow
                      /\ ret'.io = << "get", "decrypt", "delete", "encrypt", "put" >>
             /\ (p \notin InWindow /\ pc'[p] = "rotate_store")
                   => /\ pc[p] = "rotate_delete"
                      /\ call[p].keyID \notin DOMAIN store'
             /\ (p \in InWindow /\ ret'.op = "Get" /\ ret'.err = NotFound)
                   => /\ ret'.p # p
                      /\ pc'[p] = "rotate_store"
                      /\ store' = store ]_vars

\* a caller's Get has just failed with NotFound while the other caller's
\* Rotate is between its delete and its write, nothing being stored although
\* a keyset was created and no call has failed
C24_Witness ==
    /\ ret.op = "Get" /\ ret.err = NotFound /\ ret.io = << "get" >>
    /\ \E p \in InWindow :
          /\ p # ret.p
          /\ getKeySet(store, kms[ret.p], call[p].keyID, "none").err = NotFound
          /\ kms[ret.p] = kms[p]
    /\ DOMAIN store = {}
    /\ Cardinality(issued) = 1


\* the number of blobs in storage
Blobs(s) == Cardinality(DOMAIN s)

\* successful Creates whose keyset is stored no more, the Rotate of no caller
\* being about to write it back
Lost == created - Blobs(store) - Cardinality(InWindow)

\* C25 as stated: with one caller and no storage call failing, between
\* operations the store holds as many blobs as Create calls have succeeded
C25_BlobsEqualSuccessfulCreates ==
    pc[Caller] = "idle" => Blobs(store) = created

\* C25, amended: with one caller and no storage call failing, a successful
\* Create adds one blob, a successful Rotate removes one and adds one, and
\* Get, ExportPubKeyBytes, PubKeyBytesToHandle, a rejected Create and a
\* Rotate rejected before its delete leave the store as it is; a Rotate
\* whose sealing fails on the secret lock after its delete leaves one blob
\* fewer. So the store never holds more blobs than Create calls have
\* succeeded, and holds that many until a secret lock call of a Rotate fails
C25_BlobsTrackSuccessfulCreates ==
    /\ [](Lost >= 0 /\ Blobs(store) <= created)
    /\ [](pc[Caller] = "idle" /\ Lost = 0 => Blobs(store) = created)
    /\ [][ /\ (ret'.op = "Create" /\ ret'.err = NoError)
                 => Blobs(store') = Blobs(store) + 1 /\ created' = created + 1
           /\ (ret'.op = "Create" /\ ret'.err # NoError)
                 => store' = store /\ created' = created
           /\ ret'.op \in {"New", "Get", "ExportPubKeyBytes", "PubKeyBytesToHandle"}
                 => store' = store /\ created' = created
           /\ ret'.op \in {"Rotate", "none"} => created' = created
           /\ (pc[Caller] = "idle" /\ ret'.op \in {"Rotate", "none"}) => store' = store
           /\ (pc[Caller] = "rotate_delete" /\ pc'[Caller] = "rotate_store")
                 => Blobs(store') = Blobs(store) - 1
           /\ RotateSucceeds(Caller)
                 => Blobs(store') = Blobs(store) + 1 /\ Lost' = Lost
           /\ (pc[Caller] = "rotate_store" /\ ret'.err # NoError)
                 => /\ ret'.err = LockUnavailable
                    /\ store' = store
                    /\ Lost' = Lost + 1
           /\ ~(pc[Caller] = "rotate_store" /\ ret'.err # NoError) => Lost' = Lost ]_vars

\* a Rotate has just returned its new identifier, two Create calls having
\* succeeded before it, and two blobs are stored
C25_Witness ==
    /\ ret.op = "Rotate" /\ ret.err = NoError
    /\ created = 2
    /\ Blobs(store) = 2
    /\ Lost = 0

====
